---- MODULE Spec2Model ----
(***************************************************************************)
(* A model of accounts/models.py of lookit-api: the DemographicData        *)
(* records with their owner and "previous" references, the choice lists    *)
(* of the coded fields, the display projection to_display, and the         *)
(* Organization post-save handler that bootstraps the permission groups.   *)
(***************************************************************************)
EXTENDS Integers, Sequences, FiniteSets, TLC

(***************************************************************************)
(* The choice lists, verbatim: sequences of <<code, label>> pairs.         *)
(***************************************************************************)
RACE_CHOICES ==
    << <<"white", "White">>,
       <<"hisp", "Hispanic, Latino, or Spanish origin">>,
       <<"black", "Black or African American">>,
       <<"asian", "Asian">>,
       <<"native", "American Indian or Alaska Native">>,
       <<"mideast-naf", "Middle Eastern or North African">>,
       <<"hawaiian-pac-isl", "Native Hawaiian or Other Pacific Islander">>,
       <<"other", "Another race, ethnicity, or origin">> >>

GENDER_CHOICES ==
    << <<"m", "male">>,
       <<"f", "female">>,
       <<"o", "other">>,
       <<"na", "prefer not to answer">> >>

EDUCATION_CHOICES ==
    << <<"some", "some or attending high school">>,
       <<"hs", "high school diploma or GED">>,
       <<"col", "some or attending college">>,
       <<"assoc", "2-year college degree">>,
       <<"bach", "4-year college degree">>,
       <<"grad", "some or attending graduate or professional school">>,
       <<"prof", "graduate or professional degree">> >>

SPOUSE_EDUCATION_CHOICES ==
    << <<"some", "some or attending high school">>,
       <<"hs", "high school diploma or GED">>,
       <<"col", "some or attending college">>,
       <<"assoc", "2-year college degree">>,
       <<"bach", "4-year college degree">>,
       <<"grad", "some or attending graduate or professional school">>,
       <<"prof", "graduate or professional degree">>,
       <<"na", "not applicable - no spouse or partner">> >>

NO_CHILDREN_CHOICES ==
    << <<"0", "0">>, <<"1", "1">>, <<"2", "2">>, <<"3", "3">>,
       <<"4", "4">>, <<"5", "5">>, <<"6", "6">>, <<"7", "7">>,
       <<"8", "8">>, <<"9", "9">>, <<"10", "10">>,
       <<">10", "More than 10">> >>

AGE_CHOICES ==
    << <<"<18", "under 18">>,
       <<"18-21", "18-21">>,
       <<"22-24", "22-24">>,
       <<"25-29", "25-29">>,
       <<"30-34", "30-34">>,
       <<"35-39", "35-39">>,
       <<"40-44", "40-44">>,
       <<"45-59", "45-49">>,
       <<"50s", "50-59">>,
       <<"60s", "60-69">>,
       <<">70", "70 or over">> >>

GUARDIAN_CHOICES ==
    << <<"1", "1">>,
       <<"2", "2">>,
       <<"3>", "3 or more">>,
       <<"varies", "varies">> >>

\* The income list as the catalog summary counts it: one bracket short.
INCOME_CHOICES_Short ==
    << <<"0", "0">>, <<"5000", "5000">>, <<"10000", "10000">>,
       <<"15000", "15000">>, <<"20000", "20000">>, <<"30000", "30000">>,
       <<"40000", "40000">>, <<"50000", "50000">>, <<"60000", "60000">>,
       <<"70000", "70000">>, <<"80000", "80000">>, <<"90000", "90000">>,
       <<"100000", "100000">>, <<"110000", "110000">>, <<"120000", "120000">>,
       <<"130000", "130000">>, <<"140000", "140000">>, <<"150000", "150000">>,
       <<"160000", "160000">>, <<"170000", "170000">>, <<"180000", "180000">>,
       <<">200000", "over 200000">>,
       <<"na", "prefer not to answer">> >>

INCOME_CHOICES ==
    << <<"0", "0">>,
       <<"5000", "5000">>,
       <<"10000", "10000">>,
       <<"15000", "15000">>,
       <<"20000", "20000">>,
       <<"30000", "30000">>,
       <<"40000", "40000">>,
       <<"50000", "50000">>,
       <<"60000", "60000">>,
       <<"70000", "70000">>,
       <<"80000", "80000">>,
       <<"90000", "90000">>,
       <<"100000", "100000">>,
       <<"110000", "110000">>,
       <<"120000", "120000">>,
       <<"130000", "130000">>,
       <<"140000", "140000">>,
       <<"150000", "150000">>,
       <<"160000", "160000">>,
       <<"170000", "170000">>,
       <<"180000", "180000">>,
       <<"190000", "190000">>,
       <<">200000", "over 200000">>,
       <<"na", "prefer not to answer">> >>

DENSITY_CHOICES ==
    << <<"urban", "urban">>,
       <<"suburban", "suburban">>,
       <<"rural", "rural">> >>

\* The state field's list is the one USStateField installs (localflavor's
\* STATE_CHOICES replaces the choices argument); an excerpt of it.
STATE_CHOICES ==
    << <<"MA", "Massachusetts">>,
       <<"NY", "New York">> >>

(***************************************************************************)
(* The fields of DemographicData that are declared with choices, each with *)
(* its list and its column width (max_length).                             *)
(***************************************************************************)
CodedFields ==
    { "number_of_children", "number_of_guardians", "race_identification",
      "age", "gender", "education_level", "spouse_education_level",
      "annual_income", "state", "density" }

Choices(f) ==
    CASE f = "number_of_children"     -> NO_CHILDREN_CHOICES
      [] f = "number_of_guardians"    -> GUARDIAN_CHOICES
      [] f = "race_identification"    -> RACE_CHOICES
      [] f = "age"                    -> AGE_CHOICES
      [] f = "gender"                 -> GENDER_CHOICES
      [] f = "education_level"        -> EDUCATION_CHOICES
      [] f = "spouse_education_level" -> SPOUSE_EDUCATION_CHOICES
      [] f = "annual_income"          -> INCOME_CHOICES
      [] f = "density"                -> DENSITY_CHOICES
      [] f = "state"                  -> STATE_CHOICES

MaxLength(f) ==
    CASE f = "number_of_children"     -> 3
      [] f = "number_of_guardians"    -> 6
      [] f = "race_identification"    -> 16
      [] f = "age"                    -> 5
      [] f = "gender"                 -> 2
      [] f = "education_level"        -> 5
      [] f = "spouse_education_level" -> 5
      [] f = "annual_income"          -> 7
      [] f = "density"                -> 8
      [] f = "state"                  -> 2

\* The codes and the labels of a choice list.
Codes(choices) == { choices[i][1] : i \in 1..Len(choices) }

Labels(choices) == { choices[i][2] : i \in 1..Len(choices) }

\* Model.get_FOO_display: dict(choices).get(value, value). dict() keeps the
\* last pair of a repeated code; a value that is no code is returned as is.
GetDisplay(choices, value) ==
    IF value \in Codes(choices)
    THEN LET i == CHOOSE i \in 1..Len(choices) :
                     /\ choices[i][1] = value
                     /\ \A j \in (i+1)..Len(choices) : choices[j][1] # value
         IN  choices[i][2]
    ELSE value

(***************************************************************************)
(* Bounds of the model.                                                    *)
(***************************************************************************)
MaxUsers == 2

MaxRecords == 3

MaxResaved == 2

MaxInterleaved == 3

MaxShown == 2

MaxCallers == 2

MaxOrgs == 3

UserPks == 1..MaxUsers

Callers == 1..MaxCallers

\* null, for a nullable reference; primary keys start at 1.
None == 0

(***************************************************************************)
(* The state: the rows of the User, DemographicData, Organization, Group   *)
(* and object-permission tables, the clock, what each caller in the middle *)
(* of a submission has read, and the outcome of the latest call.           *)
(***************************************************************************)
VARIABLES
    users,        \* pk -> [uuid, _identicon]
    nextUserPk,
    records,      \* pk -> the DemographicData row
    nextPk,
    now,          \* the clock that auto_now_add reads
    seen,         \* caller -> [user, previous] read for a submission under way
    offconv,      \* users for whom some write supplied another previous than the latest record
    stale,        \* users for whom some create inserted a latest record read before another write
    orgs,         \* pk -> [name]
    nextOrgPk,
    groups,       \* names of the stored auth groups
    objperms,     \* <<group, permission codename, organization pk>> assigned
    last          \* the latest call and its outcome

vars == << users, nextUserPk, records, nextPk, now, seen, offconv, stale,
           orgs, nextOrgPk, groups, objperms, last >>

storeVars == << users, nextUserPk, records, nextPk, now, seen, offconv, stale >>

orgVars == << orgs, nextOrgPk, groups, objperms >>

(***************************************************************************)
(* Values of the free-form fields and sample submissions.                  *)
(***************************************************************************)
UuidPool ==
    { << "6f1c2a9e", "3b7d", "4c11", "9a52", "0d8e5f7a1b23" >>,
      << "c0ffee00", "1234", "4abc", "8def", "001122334455" >> }

BaseFields ==
    [ number_of_children              |-> "2",
      child_birthdays                 |-> << <<1990, 1, 1>>, <<1992, 6, 15>> >>,
      languages_spoken_at_home        |-> "English",
      number_of_guardians             |-> "2",
      number_of_guardians_explanation |-> "",
      race_identification             |-> "white",
      age                             |-> "30-34",
      gender                          |-> "f",
      education_level                 |-> "bach",
      spouse_education_level          |-> "na",
      annual_income                   |-> "na",
      number_of_books                 |-> 20,
      additional_comments             |-> "",
      country                         |-> "US",
      state                           |-> "MA",
      density                         |-> "urban",
      extra                           |-> "null" ]

OtherFields ==
    [ BaseFields EXCEPT !.number_of_children = ">10",
                        !.child_birthdays = << >>,
                        !.age = "45-59",
                        !.gender = "m",
                        !.annual_income = ">200000",
                        !.state = "NY",
                        !.density = "rural" ]

\* A submission with one coded field set to a value outside its list.
WithBadCode(f) == [ BaseFields EXCEPT ![f] = "xx" ]

\* A submission whose gender does not fit the column (max_length = 2).
TooLongFields == [ BaseFields EXCEPT !.gender = "xxx" ]

AllFieldInputs ==
    { BaseFields, OtherFields, TooLongFields } \cup { WithBadCode(f) : f \in CodedFields }

StoreFieldInputs == { BaseFields }

\* Every coded field of a submission holds a code of its list.
ValidFields(f) == \A c \in CodedFields : f[c] \in Codes(Choices(c))

\* Every CharField value fits its column.
FitsColumns(f) == \A c \in CodedFields : Len(f[c]) <= MaxLength(c)

(***************************************************************************)
(* Reading the store.                                                      *)
(***************************************************************************)
\* The reverse relation without its owner: every stored record.
RecordsOfAnyUser(u) == DOMAIN records

\* The stored records of an owner (user.demographics).
RecordsOf(u) == { r \in DOMAIN records : records[r].user = u }

\* latest_for(owner): the owner's most recently created record, or None.
latest_for(u) ==
    IF RecordsOf(u) = {} THEN None
    ELSE CHOOSE r \in RecordsOf(u) :
             \A s \in RecordsOf(u) :
                 \/ records[s].created_at < records[r].created_at
                 \/ (records[s].created_at = records[r].created_at /\ s <= r)

\* A traversal that does not look at the owner of the records it reaches.
RECURSIVE WalkAnyOwner(_, _, _)
WalkAnyOwner(u, cur, out) ==
    IF cur = None THEN [status |-> "ok", out |-> out]
    ELSE IF \E i \in 1..Len(out) : out[i] = cur
    THEN [status |-> "BrokenChain", out |-> out]
    ELSE WalkAnyOwner(u, records[cur].previous, Append(out, cur))

\* history_for(owner): follow previous from latest_for(owner), yielding each
\* record; BrokenChain on a record already yielded or owned by another user.
RECURSIVE Walk(_, _, _)
Walk(u, cur, out) ==
    IF cur = None THEN [status |-> "ok", out |-> out]
    ELSE IF records[cur].user # u \/ (\E i \in 1..Len(out) : out[i] = cur)
    THEN [status |-> "BrokenChain", out |-> out]
    ELSE Walk(u, records[cur].previous, Append(out, cur))

history_for(u) == Walk(u, latest_for(u), << >>)

(***************************************************************************)
(* on_delete=CASCADE: the rows deleted together with a set of rows.        *)
(***************************************************************************)
\* The records that refer to one of rs as their previous (next_demographic_data).
NextOf(rs) == { r \in DOMAIN records : records[r].previous \in rs }

\* A delete that takes no referring row with it.
NoCascade(rs) == rs

RECURSIVE Collect(_)
Collect(rs) ==
    IF NextOf(rs) \subseteq rs THEN rs ELSE Collect(rs \cup NextOf(rs))

\* The table without the rows of gone.
Without(table, gone) == [ k \in DOMAIN table \ gone |-> table[k] ]

(***************************************************************************)
(* Writing the store.                                                      *)
(***************************************************************************)
\* A row whose created_at is not set from the clock.
NewRowFixedTime(u, p, f) == f @@ [ user |-> u, previous |-> p, created_at |-> 1 ]

\* A row that drops the previous it is given.
NewRowNoPrevious(u, p, f) == f @@ [ user |-> u, previous |-> None, created_at |-> now ]

\* The row an insert stores: created_at is set from the clock (auto_now_add).
NewRow(u, p, f) == f @@ [ user |-> u, previous |-> p, created_at |-> now ]

\* What the database answers to the insert of a row for user u with previous p.
InsertOutcome(u, p, f) ==
    IF ~FitsColumns(f) THEN "DataError"
    ELSE IF u \notin DOMAIN users \/ (p # None /\ p \notin DOMAIN records)
    THEN "IntegrityError"
    ELSE "ok"

\* DemographicData.objects.create(user=u, previous=p, **f).
Insert(u, p, f) ==
    LET outcome == InsertOutcome(u, p, f) IN
    /\ last' = [ op |-> "create", status |-> outcome, valid |-> ValidFields(f),
                 pk |-> IF outcome = "ok" THEN nextPk ELSE None ]
    /\ IF outcome = "ok"
       THEN /\ records' = records @@ (nextPk :> NewRow(u, p, f))
            /\ nextPk' = nextPk + 1
            /\ now' = now + 1
       ELSE UNCHANGED << records, nextPk, now >>

\* A new user row: uuid from uuid4, no identicon yet.
CreateUser(uuid) ==
    /\ users' = users @@ (nextUserPk :> [ uuid |-> uuid, _identicon |-> "" ])
    /\ nextUserPk' = nextUserPk + 1
    /\ last' = [ op |-> "create_user", pk |-> nextUserPk ]
    /\ UNCHANGED << records, nextPk, now, seen, offconv, stale >>
    /\ UNCHANGED orgVars

\* user.delete(): the user's records go with it, and the records after them.
DeleteUser(u) ==
    /\ u \in DOMAIN users
    /\ LET gone == Collect(RecordsOf(u)) IN
       /\ records' = Without(records, gone)
       /\ last' = [ op |-> "delete_user", pk |-> u, gone |-> gone ]
    /\ users' = Without(users, {u})
    /\ UNCHANGED << nextUserPk, nextPk, now, seen, offconv, stale >>
    /\ UNCHANGED orgVars

\* record.delete(): the records that refer to it go with it, and so on.
DeleteRecord(r) ==
    /\ r \in DOMAIN records
    /\ LET gone == Collect({r}) IN
       /\ records' = Without(records, gone)
       /\ last' = [ op |-> "delete_record", pk |-> r, gone |-> gone ]
    /\ UNCHANGED << users, nextUserPk, nextPk, now, seen, offconv, stale >>
    /\ UNCHANGED orgVars

\* A caller starts a submission for u: it reads the user's latest record.
ReadLatest(c, u) ==
    /\ seen[c].user = None
    /\ u \in DOMAIN users
    /\ seen' = [ seen EXCEPT ![c] = [ user |-> u, previous |-> latest_for(u) ] ]
    /\ last' = [ op |-> "latest_for", owner |-> u, pk |-> latest_for(u) ]
    /\ UNCHANGED << users, nextUserPk, records, nextPk, now, offconv, stale >>
    /\ UNCHANGED orgVars

\* The caller creates the record, with what it read as previous.
CreateFromLatest(c, f) ==
    /\ seen[c].user # None
    /\ Insert(seen[c].user, seen[c].previous, f)
    /\ seen' = [ seen EXCEPT ![c] = [ user |-> None, previous |-> None ] ]
    /\ stale' = IF /\ InsertOutcome(seen[c].user, seen[c].previous, f) = "ok"
                   /\ seen[c].previous # latest_for(seen[c].user)
                THEN stale \cup { seen[c].user }
                ELSE stale
    /\ UNCHANGED << users, nextUserPk, offconv >>
    /\ UNCHANGED orgVars

\* A create with a previous of the caller's choosing.
CreateWith(u, p, f) ==
    /\ Insert(u, p, f)
    /\ offconv' = IF InsertOutcome(u, p, f) = "ok" /\ p # latest_for(u)
                  THEN offconv \cup {u}
                  ELSE offconv
    /\ UNCHANGED << users, nextUserPk, seen, stale >>
    /\ UNCHANGED orgVars

\* record.previous = p; record.save(): created_at is kept (auto_now_add).
SavePrevious(r, p) ==
    /\ r \in DOMAIN records
    /\ p # records[r].previous
    /\ IF p # None /\ p \notin DOMAIN records
       THEN /\ last' = [ op |-> "save", status |-> "IntegrityError", pk |-> r ]
            /\ UNCHANGED << records, offconv >>
       ELSE /\ last' = [ op |-> "save", status |-> "ok", pk |-> r ]
            /\ records' = [ records EXCEPT ![r].previous = p ]
            /\ offconv' = offconv \cup { records[r].user }
    /\ UNCHANGED << users, nextUserPk, nextPk, now, seen, stale >>
    /\ UNCHANGED orgVars

\* A traversal of an owner's history; it reads only.
HistoryFor(u) ==
    /\ u \in DOMAIN users
    /\ last' = [ op |-> "history_for", owner |-> u,
                 status |-> history_for(u).status, out |-> history_for(u).out ]
    /\ UNCHANGED storeVars
    /\ UNCHANGED orgVars

(***************************************************************************)
(* The display projection.                                                 *)
(***************************************************************************)
\* str.zfill applied to the decimal form of n.
ZFill(n, w) ==
    LET digits == ToString(n)
        zeros[k \in 0..w] == IF k = 0 THEN "" ELSE "0" \o zeros[k - 1]
    IN  IF Len(digits) >= w THEN digits ELSE zeros[w - Len(digits)] \o digits

\* date.isoformat(): YYYY-MM-DD, of a date <<year, month, day>>.
DateIsoFormat(d) == ZFill(d[1], 4) \o "-" \o ZFill(d[2], 2) \o "-" \o ZFill(d[3], 2)

\* datetime.isoformat() of the instant t microseconds into the clock's first
\* second (UTC): the fraction is left out when it is zero.
DateTimeIsoFormat(t) ==
    "2017-05-24T14:36:00"
        \o (IF t % 1000000 = 0 THEN "" ELSE "." \o ZFill(t % 1000000, 6))
        \o "+00:00"

\* uuid.hex: the groups of the uuid without the hyphens.
Hex(uuid) == uuid[1] \o uuid[2] \o uuid[3] \o uuid[4] \o uuid[5]

\* str(uuid): the groups joined by hyphens.
UuidStr(uuid) == uuid[1] \o "-" \o uuid[2] \o "-" \o uuid[3] \o "-" \o uuid[4] \o "-" \o uuid[5]

\* get_<field>_display() of a record.
Display(row, f) == GetDisplay(Choices(f), row[f])

to_display(row) ==
    [ user                            |-> Hex(users[row.user].uuid),
      created_at                      |-> DateTimeIsoFormat(row.created_at),
      number_of_children              |-> Display(row, "number_of_children"),
      child_birthdays                 |-> [ i \in 1..Len(row.child_birthdays) |->
                                              DateIsoFormat(row.child_birthdays[i]) ],
      languages_spoken_at_home        |-> row.languages_spoken_at_home,
      number_of_guardians             |-> Display(row, "number_of_guardians"),
      number_of_guardians_explanation |-> row.number_of_guardians_explanation,
      race_identification             |-> Display(row, "race_identification"),
      age                             |-> Display(row, "age"),
      gender                          |-> Display(row, "gender"),
      education_level                 |-> Display(row, "education_level"),
      spouse_education_level          |-> Display(row, "spouse_education_level"),
      annual_income                   |-> Display(row, "annual_income"),
      number_of_books                 |-> row.number_of_books,
      additional_comments             |-> row.additional_comments,
      country                         |-> row.country,
      state                           |-> Display(row, "state"),
      density                         |-> Display(row, "density"),
      extra                           |-> row.extra ]

\* A projection that also renders the owner's identicon, which saves the user.
ToDisplaySavingIdenticon(r) ==
    /\ r \in DOMAIN records
    /\ last' = [ op |-> "to_display", pk |-> r, out |-> to_display(records[r]) ]
    /\ users' = [ users EXCEPT ![records[r].user]._identicon =
                     "data:image/png;base64," \o UuidStr(users[records[r].user].uuid) ]
    /\ UNCHANGED << nextUserPk, records, nextPk, now, seen, offconv, stale >>
    /\ UNCHANGED orgVars

\* record.to_display(): the snapshot is returned, nothing is stored.
ToDisplay(r) ==
    /\ r \in DOMAIN records
    /\ last' = [ op |-> "to_display", pk |-> r, out |-> to_display(records[r]) ]
    /\ UNCHANGED storeVars
    /\ UNCHANGED orgVars

\* user.identicon: generated from the uuid and saved on the first read.
Identicon(u) ==
    /\ u \in DOMAIN users
    /\ LET icon == IF users[u]._identicon = ""
                   THEN "data:image/png;base64," \o UuidStr(users[u].uuid)
                   ELSE users[u]._identicon
       IN  /\ users' = [ users EXCEPT ![u]._identicon = icon ]
           /\ last' = [ op |-> "identicon", pk |-> u, out |-> icon ]
    /\ UNCHANGED << nextUserPk, records, nextPk, now, seen, offconv, stale >>
    /\ UNCHANGED orgVars

(***************************************************************************)
(* Organizations and their permission groups.                              *)
(***************************************************************************)
\* Organization.Meta.permissions: pairs <<codename, name>>.
OrganizationPermissions ==
    << <<"can_view", "Can View">>,
       <<"can_edit", "Can Edit">>,
       <<"can_create", "Can Create">>,
       <<"can_remove", "Can Remove">> >>

\* Text is a sequence of characters, so that slugify and upper can be
\* computed; the letters that occur, as <<lower case, upper case>>.
Letters ==
    { <<"a", "A">>, <<"b", "B">>, <<"d", "D">>, <<"e", "E">>, <<"g", "G">>,
      <<"i", "I">>, <<"l", "L">>, <<"m", "M">>, <<"n", "N">>, <<"o", "O">>,
      <<"r", "R">>, <<"t", "T">>, <<"y", "Y">> }

Lower(ch) == IF \E l \in Letters : l[2] = ch
             THEN (CHOOSE l \in Letters : l[2] = ch)[1] ELSE ch

Upper(ch) == IF \E l \in Letters : l[1] = ch
             THEN (CHOOSE l \in Letters : l[1] = ch)[2] ELSE ch

\* \w of the regular expressions, \s, and the hyphen.
IsWord(ch) == ch = "_" \/ \E l \in Letters : ch \in { l[1], l[2] }

IsSpace(ch) == ch = " "

IsSep(ch) == IsSpace(ch) \/ ch = "-"

\* re.sub(r'[^\w\s-]', '', value): only word characters, white space and
\* hyphens are kept.
KeepSlugChars(seq) ==
    LET F[k \in 0..Len(seq)] ==
            IF k = 0 THEN << >>
            ELSE IF IsWord(seq[k]) \/ IsSep(seq[k])
                 THEN Append(F[k - 1], seq[k]) ELSE F[k - 1]
    IN  F[Len(seq)]

\* str.strip(): without the white space at both ends.
Strip(seq) ==
    LET inner == { k \in 1..Len(seq) : ~IsSpace(seq[k]) } IN
    IF inner = {} THEN << >>
    ELSE LET lo == CHOOSE k \in inner : \A j \in inner : k <= j
             hi == CHOOSE k \in inner : \A j \in inner : j <= k
         IN  SubSeq(seq, lo, hi)

\* re.sub(r'[-\s]+', '-', value): each run of separators becomes one hyphen.
Squeeze(seq) ==
    LET F[k \in 0..Len(seq)] ==
            IF k = 0 THEN << >>
            ELSE IF IsSep(seq[k])
                 THEN IF k > 1 /\ IsSep(seq[k - 1]) THEN F[k - 1]
                      ELSE Append(F[k - 1], "-")
                 ELSE Append(F[k - 1], seq[k])
    IN  F[Len(seq)]

\* django.utils.text.slugify.
slugify(name) ==
    LET kept    == KeepSlugChars(name)
        lowered == [ k \in 1..Len(Strip(kept)) |-> Lower(Strip(kept)[k]) ]
    IN  Squeeze(lowered)

\* The characters of a text joined into one string.
Join(seq) ==
    LET F[k \in 0..Len(seq)] == IF k = 0 THEN "" ELSE F[k - 1] \o seq[k]
    IN  F[Len(seq)]

\* f'{slugify(organization.name)}-ORG_{group}'.upper()
GroupName(name, group) ==
    LET text == slugify(name) \o << "-", "O", "R", "G", "_" >> \o group
    IN  Join([ k \in 1..Len(text) |-> Upper(text[k]) ])

\* The two kinds of group, as the handler spells them.
GroupKinds == << << "r", "e", "a", "d" >>, << "a", "d", "m", "i", "n" >> >>

\* Python values of the two types the handler compares.
PyTuple(t) == [ type |-> "tuple", val |-> t ]

PyStr(t) == [ type |-> "str", val |-> t ]

\* a != b in Python: values of different types are never equal.
PyNe(a, b) == a.type # b.type \/ a.val # b.val

\* The permissions the handler's inner loop assigns to a group of a kind:
\* those it does not skip with continue.
AssignedTo(group) ==
    { OrganizationPermissions[i][1] : i \in
        { i \in 1..Len(OrganizationPermissions) :
            ~( /\ Join(group) = "read"
               /\ PyNe(PyTuple(OrganizationPermissions[i]), PyStr("can_view")) ) } }

\* The assign_perm calls of organization_post_save, as <<group name,
\* permission codename, organization>>: none unless the save created the row.
Assignments(pk, name, created) ==
    IF created
    THEN UNION { { << GroupName(name, GroupKinds[g]), perm, pk >> :
                       perm \in AssignedTo(GroupKinds[g]) } :
                 g \in 1..Len(GroupKinds) }
    ELSE {}

\* organization_post_save: the groups and the object permissions after it.
organization_post_save(pk, name, created) ==
    /\ groups' = IF created
                 THEN groups \cup
                        { GroupName(name, GroupKinds[g]) : g \in 1..Len(GroupKinds) }
                 ELSE groups
    /\ objperms' = objperms \cup Assignments(pk, name, created)

\* organization.save() of a new organization, followed by the handler.
CreateOrganization(name) ==
    /\ orgs' = orgs @@ (nextOrgPk :> [ name |-> name ])
    /\ nextOrgPk' = nextOrgPk + 1
    /\ organization_post_save(nextOrgPk, name, TRUE)
    /\ last' = [ op |-> "save_organization", pk |-> nextOrgPk, created |-> TRUE,
                 assigned |-> Assignments(nextOrgPk, name, TRUE) ]
    /\ UNCHANGED storeVars

\* organization.save() of a stored organization, followed by the handler.
UpdateOrganization(o, name) ==
    /\ o \in DOMAIN orgs
    /\ orgs' = [ orgs EXCEPT ![o].name = name ]
    /\ organization_post_save(o, name, FALSE)
    /\ last' = [ op |-> "save_organization", pk |-> o, created |-> FALSE,
                 assigned |-> Assignments(o, name, FALSE) ]
    /\ UNCHANGED nextOrgPk
    /\ UNCHANGED storeVars

(***************************************************************************)
(* The store's specification.                                              *)
(***************************************************************************)
Init ==
    /\ users = << >>
    /\ nextUserPk = 1
    /\ records = << >>
    /\ nextPk = 1
    /\ now = 1
    /\ seen = [ c \in Callers |-> [ user |-> None, previous |-> None ] ]
    /\ offconv = {}
    /\ stale = {}
    /\ orgs = << >>
    /\ nextOrgPk = 1
    /\ groups = {}
    /\ objperms = {}
    /\ last = [ op |-> "none" ]

\* The uuid4 values drawn in the store's specifications.
StoreUuids == { << "6f1c2a9e", "3b7d", "4c11", "9a52", "0d8e5f7a1b23" >> }

\* Records are created, deleted and traversed, one call at a time.
Next ==
    \/ \E uuid \in StoreUuids : nextUserPk <= MaxUsers /\ CreateUser(uuid)
    \/ \E u \in UserPks : DeleteUser(u)
    \/ \E r \in 1..MaxRecords : DeleteRecord(r)
    \/ \E u \in UserPks, p \in 0..MaxRecords, f \in StoreFieldInputs :
          nextPk <= MaxRecords /\ CreateWith(u, p, f)
    \/ \E u \in UserPks : HistoryFor(u)

Spec == Init /\ [][Next]_vars

\* Records are created, re-saved with another previous, and traversed.
NextResave ==
    \/ \E uuid \in StoreUuids : nextUserPk <= MaxUsers /\ CreateUser(uuid)
    \/ \E u \in UserPks, p \in 0..MaxResaved, f \in StoreFieldInputs :
          nextPk <= MaxResaved /\ CreateWith(u, p, f)
    \/ \E r \in 1..MaxResaved, p \in 0..MaxResaved : SavePrevious(r, p)
    \/ \E r \in 1..MaxResaved : DeleteRecord(r)
    \/ \E u \in UserPks : HistoryFor(u)

SpecResave == Init /\ [][NextResave]_vars

\* Submissions of several callers interleave: each reads the user's latest
\* record and then creates its record with it.
NextInterleaved ==
    \/ \E uuid \in StoreUuids : nextUserPk <= MaxUsers /\ CreateUser(uuid)
    \/ \E c \in Callers, u \in UserPks : ReadLatest(c, u)
    \/ \E c \in Callers, f \in StoreFieldInputs :
          nextPk <= MaxInterleaved /\ CreateFromLatest(c, f)
    \/ \E r \in 1..MaxInterleaved : DeleteRecord(r)

SpecInterleaved == Init /\ [][NextInterleaved]_vars

\* The display of a record reads the record and its one user: the users
\* stored under SpecDisplay.
ShownUserPks == { 1 }

\* Submissions with every kind of coded value are created and displayed.
NextDisplay ==
    \/ \E uuid \in UuidPool : nextUserPk \in ShownUserPks /\ CreateUser(uuid)
    \/ \E u \in UserPks, f \in AllFieldInputs :
          nextPk <= MaxShown /\ CreateWith(u, latest_for(u), f)
    \/ \E r \in 1..MaxShown : ToDisplay(r)
    \/ \E u \in UserPks : Identicon(u)

SpecDisplay == Init /\ [][NextDisplay]_vars

\* The names given to organizations.
OrgNames ==
    { << "M", "I", "T", " ", "L", "a", "b" >>,
      << "m", "i", "t", "-", "l", "a", "b", "!" >>,
      << " ", "Y", "a", "l", "e", " ", "-", " ", "L", "a", "b" >> }

\* Organizations are created and saved again.
NextOrg ==
    \/ \E name \in OrgNames : nextOrgPk <= MaxOrgs /\ CreateOrganization(name)
    \/ \E o \in 1..MaxOrgs, name \in OrgNames : UpdateOrganization(o, name)

SpecOrg == Init /\ [][NextOrg]_vars

(***************************************************************************)
(* Properties of the choice lists, of create and of the display            *)
(* projection, checked under SpecDisplay.                                  *)
(***************************************************************************)

\* C1: a create whose coded field holds a value that is no code of the
\* field's list fails with InvalidFieldValue and stores nothing, so that
\* every stored record holds only codes of the lists. (A create that the
\* database refuses for its references or column widths is not held
\* against the claim.)
C1_InvalidCodeRejected ==
    /\ (last.op = "create" /\ ~last.valid) =>
          /\ last.status \in { "InvalidFieldValue", "IntegrityError", "DataError" }
          /\ last.pk = None
    /\ \A r \in DOMAIN records : ValidFields(records[r])

\* C5: what to_display renders for a coded field is a label of the field's
\* list or the UnknownCode condition, never another string.
C5_DisplayIsLabelOrUnknownCode ==
    last.op = "to_display" =>
        \A f \in CodedFields :
            last.out[f] \in Labels(Choices(f)) \cup { "UnknownCode" }

\* The number of codes the catalog summary states for each list.
StatedSize(f) ==
    CASE f = "race_identification"    -> 8
      [] f = "gender"                 -> 4
      [] f = "education_level"        -> 7
      [] f = "spouse_education_level" -> 8
      [] f = "number_of_children"     -> 12
      [] f = "age"                    -> 11
      [] f = "number_of_guardians"    -> 4
      [] f = "annual_income"          -> 23
      [] f = "density"                -> 3

\* The coded fields whose lists the catalog summary counts: those that
\* DemographicData defines itself (the list of state is localflavor's).
CountedFields == CodedFields \ { "state" }

\* No code appears twice in the list, so code -> label is a function.
NoCodeTwice(choices) ==
    \A i, j \in 1..Len(choices) : choices[i][1] = choices[j][1] => i = j

ChildrenCodes == { ToString(n) : n \in 0..10 } \cup { ">10" }

\* Each code a stored record holds is paired with exactly one label of its
\* field's list, the one its display shows.
StoredCodesHaveOneLabel ==
    \A r \in DOMAIN records : \A f \in CodedFields :
        records[r][f] \in Codes(Choices(f)) =>
            { Choices(f)[i][2] : i \in { i \in 1..Len(Choices(f)) :
                                            Choices(f)[i][1] = records[r][f] } }
                = { Display(records[r], f) }

\* C7 as stated: the lists have the stated sizes, annual income 23
\* including "na", and code -> label is a function.
C7_CatalogSizesAsStated ==
    /\ \A f \in CountedFields :
          /\ Len(Choices(f)) = StatedSize(f)
          /\ NoCodeTwice(Choices(f))
    /\ Codes(NO_CHILDREN_CHOICES) = ChildrenCodes
    /\ "na" \in Codes(INCOME_CHOICES)
    /\ StoredCodesHaveOneLabel

\* C7, amended: the lists have the stated sizes except that annual income
\* has 24 codes (23 brackets and "na"); no code appears twice in a list.
C7_CatalogSizes ==
    /\ \A f \in CountedFields :
          /\ Len(Choices(f)) = IF f = "annual_income" THEN 24 ELSE StatedSize(f)
          /\ NoCodeTwice(Choices(f))
          /\ Cardinality(Codes(Choices(f))) = Len(Choices(f))
    /\ Codes(NO_CHILDREN_CHOICES) = ChildrenCodes
    /\ "na" \in Codes(INCOME_CHOICES)
    /\ Cardinality(Codes(INCOME_CHOICES) \ {"na"}) = 23
    /\ StoredCodesHaveOneLabel

\* A record with the sentinel income "na" is stored and displayed by its label.
C7_Witness ==
    /\ last.op = "to_display"
    /\ records[last.pk].annual_income = "na"
    /\ last.out.annual_income = "prefer not to answer"

\* C8: to_display changes no stored record and no user, and a second call
\* on the same record yields the output of the first.
C8_ToDisplayReadOnlyIdempotent ==
    [][ last'.op = "to_display" =>
          /\ records' = records
          /\ users' = users
          /\ (last.op = "to_display" /\ last.pk = last'.pk) => last'.out = last.out
      ]_vars

\* A record is displayed while another record and its user are stored.
C8_Witness ==
    /\ last.op = "to_display"
    /\ Cardinality(DOMAIN records) >= 2
    /\ last.out.user = Hex(users[records[last.pk].user].uuid)
    /\ last.out.child_birthdays = << "1990-01-01", "1992-06-15" >>

(***************************************************************************)
(* Properties of the chain of records, checked under Spec and              *)
(* SpecInterleaved.                                                        *)
(***************************************************************************)
\* The records met by following previous from cur, cur included.
RECURSIVE Reach(_, _)
Reach(cur, acc) ==
    IF cur = None \/ cur \in acc \/ cur \notin DOMAIN records THEN acc
    ELSE Reach(records[cur].previous, acc \cup {cur})

\* Following previous from r leads back to r.
OnCycle(r) == r \in Reach(records[r].previous, {})

\* The elements of a sequence.
Range(seq) == { seq[i] : i \in 1..Len(seq) }

\* C2: for an owner whose records were all created in sequence, each with
\* the owner's then-latest record as previous, history_for starts at
\* latest_for(owner), yields exactly the owner's records in strictly
\* descending created_at order, and ends at the record with previous unset.
C2_HistoryOfSequentialCreates ==
    (last.op = "history_for" /\ last.owner \notin offconv) =>
        LET u == last.owner
            n == Cardinality(RecordsOf(u))
        IN  /\ last.status = "ok"
            /\ Len(last.out) = n
            /\ Range(last.out) = RecordsOf(u)
            /\ n >= 1 => /\ last.out[1] = latest_for(u)
                         /\ records[last.out[n]].previous = None
            /\ \A i \in 1..(n - 1) :
                   /\ records[last.out[i]].created_at > records[last.out[i + 1]].created_at
                   /\ records[last.out[i]].previous = last.out[i + 1]

\* The history of three records created in sequence has been read.
C2_Witness ==
    /\ last.op = "history_for"
    /\ last.owner \notin offconv
    /\ last.status = "ok"
    /\ Len(last.out) = 3

\* C3 as stated: in every state, a record whose previous is set has the
\* user of the record its previous refers to.
C3_PreviousHasSameUser ==
    \A r \in DOMAIN records :
        (records[r].previous # None /\ records[r].previous \in DOMAIN records) =>
            records[records[r].previous].user = records[r].user

\* C3, amended: the store does not enforce it; it holds for the records of
\* every user whose creates all supplied latest_for(user) as previous and
\* whose records were not re-saved with another previous.
C3_SameUserByConvention ==
    \A r \in DOMAIN records :
        (records[r].user \notin offconv /\ records[r].previous # None) =>
            /\ records[r].previous \in DOMAIN records
            /\ records[records[r].previous].user = records[r].user

\* A user who followed the convention has a record with a previous, while
\* another user's record refers to a record that is not its owner's.
C3_Witness ==
    /\ \E r \in DOMAIN records :
          records[r].user \notin offconv /\ records[r].previous # None
    /\ ~C3_PreviousHasSameUser

\* C4: history_for fails with BrokenChain exactly when following previous
\* from latest_for(owner) revisits a record or reaches a record of another
\* user; it always ends, having yielded each record at most once, with the
\* full history when it does not fail; and it changes no stored row.
C4_BrokenChainOrFullHistory ==
    /\ [](last.op = "history_for" =>
            LET u == last.owner
                reached == Reach(latest_for(u), {})
                broken == \E r \in reached : records[r].user # u \/ OnCycle(r)
            IN  /\ last.status \in { "ok", "BrokenChain" }
                /\ (last.status = "BrokenChain") <=> broken
                /\ Len(last.out) = Cardinality(Range(last.out))
                /\ Range(last.out) \subseteq reached
                /\ last.status = "ok" => Range(last.out) = reached)
    /\ [][ last'.op = "history_for" => (records' = records /\ users' = users) ]_vars

\* A traversal has failed on a cycle among the owner's own records.
C4_Witness ==
    /\ last.op = "history_for"
    /\ last.status = "BrokenChain"
    /\ Len(last.out) >= 2
    /\ \A r \in Reach(latest_for(last.owner), {}) : records[r].user = last.owner

\* No two records of the owner have the same previous (so at most one of
\* them has previous unset).
SingleChain(u) ==
    \A r, s \in RecordsOf(u) : records[r].previous = records[s].previous => r = s

\* C6 as stated: after any interleaving of creates that each supply
\* latest_for(owner) as previous, the owner's records form a single chain.
C6_SingleChainUnderInterleaving ==
    \A u \in DOMAIN users : u \notin offconv => SingleChain(u)

\* C6, amended: the owner's records form a single chain when each create
\* supplies the record that is latest_for(owner) at the moment of its
\* insert; a create that inserts a latest record read before another
\* create's insert forks the history.
C6_SingleChainWhenReadsAreFresh ==
    \A u \in DOMAIN users : u \notin (offconv \cup stale) => SingleChain(u)

\* An owner whose creates all read a fresh latest record has a chain of two
\* records and a further submission under way.
C6_Witness ==
    \E u \in DOMAIN users :
        /\ u \notin stale
        /\ Cardinality(RecordsOf(u)) >= 2
        /\ \E c \in Callers : seen[c].user = u
        /\ C6_SingleChainWhenReadsAreFresh

\* C10: every stored record's previous is unset or stored, and its user is
\* stored; a delete of a record takes every record that reaches it, and a
\* delete of a user takes all of the user's records.
C10_ReferencesStayStored ==
    /\ [](\A r \in DOMAIN records :
             /\ records[r].previous = None \/ records[r].previous \in DOMAIN records
             /\ records[r].user \in DOMAIN users)
    /\ [][ /\ \A r \in DOMAIN records \ DOMAIN records' :
                 \A s \in DOMAIN records :
                     r \in Reach(s, {}) => s \notin DOMAIN records'
           /\ \A u \in DOMAIN users \ DOMAIN users' :
                 \A s \in RecordsOf(u) : s \notin DOMAIN records'
         ]_vars

\* A delete has taken a record and a later version with it, and an earlier
\* record is still stored.
C10_Witness ==
    /\ last.op = "delete_record"
    /\ Cardinality(last.gone) >= 2
    /\ \E r \in DOMAIN records : r < last.pk

(***************************************************************************)
(* The permission groups of an organization, checked under SpecOrg.        *)
(***************************************************************************)
\* The permissions a group holds on an organization.
PermsOf(group, o) == { t[2] : t \in { t \in objperms : t[1] = group /\ t[3] = o } }

\* C9: after the first save of an organization its READ and ADMIN groups
\* exist, the ADMIN group holds the four organization permissions on it and
\* the READ group holds can_view on it and nothing else; the save of a
\* stored organization assigns no permission.
C9_GroupsGetTheirPermissions ==
    last.op = "save_organization" =>
        LET name == orgs[last.pk].name
            read == GroupName(name, << "r", "e", "a", "d" >>)
            admin == GroupName(name, << "a", "d", "m", "i", "n" >>)
        IN  IF last.created
            THEN /\ { read, admin } \subseteq groups
                 /\ PermsOf(admin, last.pk) =
                        { "can_view", "can_edit", "can_create", "can_remove" }
                 /\ PermsOf(read, last.pk) = { "can_view" }
                 /\ last.assigned \subseteq objperms
            ELSE last.assigned = {}

====
